---- MODULE Spec2Model ----
(***************************************************************************)
(* A model of skin_editor.py: the #RRGGBBAA colour codec (rgba_to_hex,     *)
(* hex_to_rgba), the PNG -> text exporter (png_to_hex_grid) and the        *)
(* text -> PNG importer (hex_grid_to_png).                                 *)
(*                                                                         *)
(* Python strings are sequences of one-character strings, so formatting,   *)
(* slicing, stripping, splitting and parsing are computed character by     *)
(* character.  A text file is the sequence of its lines, each line keeping *)
(* its terminating "\n" (what readlines() returns).                        *)
(***************************************************************************)
EXTENDS Integers, Sequences, FiniteSets, TLC

VARIABLES
    pc,             \* position of the running conversion ("idle" between runs)
    png_in,         \* the source image file of png2txt
    txt,            \* the text file: output of png2txt, input of txt2png
    png_out,        \* the image file written by txt2png
    stdout,         \* what the current/last run printed
    mode,           \* "png2txt" / "txt2png": the current or last run ("none" before)
    txt_src,        \* history: who wrote txt ("none", "user", "partial" while a
                    \* png2txt run writes it, "export" once it has written it)
    img,            \* png_to_hex_grid: the loaded, RGBA-converted image
    y,              \* loop index of the row loop in progress
    lines,          \* hex_grid_to_png: f.readlines()
    grid_data,      \* hex_grid_to_png: the rows of tokens kept so far
    expected_width, \* hex_grid_to_png: -1 until the first non-blank line
    cin,            \* codec: the argument of the first codec call
    cval,           \* codec: the value returned by the last codec call
    ccalls          \* codec: the codec functions called so far, in order

vars == <<pc, png_in, txt, png_out, stdout, mode, txt_src, img, y, lines, grid_data,
          expected_width, cin, cval, ccalls>>

convVars == <<pc, png_in, txt, png_out, stdout, mode, txt_src, img, y,
              lines, grid_data, expected_width>>

codecVars == <<cin, cval, ccalls>>

(***************************************************************************)
(* Characters                                                              *)
(***************************************************************************)
UpperHex == <<"0","1","2","3","4","5","6","7","8","9","A","B","C","D","E","F">>

LowerHex == <<"0","1","2","3","4","5","6","7","8","9","a","b","c","d","e","f">>

\* The characters str.strip() and str.split() treat as whitespace that the
\* inputs of the model use.
Whitespace == {" ", "\t", "\n"}

IsHexDigit(c) == \E i \in 1..16 : UpperHex[i] = c \/ LowerHex[i] = c

HexVal(c) == (CHOOSE i \in 1..16 : UpperHex[i] = c \/ LowerHex[i] = c) - 1

\* Python's s[a:b] for 0 <= a <= b: the bounds are clamped to len(s).
Slice(s, a, b) ==
    LET hi == IF b > Len(s) THEN Len(s) ELSE b
    IN  IF a >= hi THEN <<>> ELSE SubSeq(s, a + 1, hi)

RECURSIVE LStrip(_)
LStrip(s) ==
    IF s # <<>> /\ s[1] \in Whitespace THEN LStrip(Tail(s)) ELSE s

RECURSIVE RStrip(_)
RStrip(s) ==
    IF s # <<>> /\ s[Len(s)] \in Whitespace
    THEN RStrip(SubSeq(s, 1, Len(s) - 1))
    ELSE s

\* str.strip()
Strip(s) == LStrip(RStrip(s))

\* The index of the first whitespace character of s at or after i, or
\* Len(s) + 1 when there is none.
NextSpace(s, i) ==
    CHOOSE j \in i..(Len(s) + 1) :
        /\ (j = Len(s) + 1 \/ s[j] \in Whitespace)
        /\ \A k \in i..(j - 1) : s[k] \notin Whitespace

\* Whether a word (a maximal run of non-whitespace) of s starts at i.
WordStart(s, i) ==
    s[i] \notin Whitespace /\ (i = 1 \/ s[i - 1] \in Whitespace)

RECURSIVE WordsFrom(_, _, _)
\* The words of s that start at an index in lo..hi, in order (the range is
\* halved, so that the depth of the recursion stays logarithmic).
WordsFrom(s, lo, hi) ==
    IF lo > hi THEN <<>>
    ELSE IF lo = hi
    THEN IF WordStart(s, lo)
         THEN <<SubSeq(s, lo, NextSpace(s, lo) - 1)>>
         ELSE <<>>
    ELSE LET mid == (lo + hi) \div 2
         IN  WordsFrom(s, lo, mid) \o WordsFrom(s, mid + 1, hi)

\* str.split() with no argument: the maximal runs of non-whitespace.
Split(s) == WordsFrom(s, 1, Len(s))

RECURSIVE JoinRange(_, _, _, _)
JoinRange(sep, items, lo, hi) ==
    IF lo > hi THEN <<>>
    ELSE IF lo = hi THEN items[lo]
    ELSE LET mid == (lo + hi) \div 2
         IN  JoinRange(sep, items, lo, mid) \o sep
                 \o JoinRange(sep, items, mid + 1, hi)

\* sep.join(items)
Join(sep, items) == JoinRange(sep, items, 1, Len(items))

(***************************************************************************)
(* rgba_to_hex                                                             *)
(***************************************************************************)
RECURSIVE HexDigits(_)
\* The uppercase hexadecimal digits of n >= 0, most significant first.
HexDigits(n) ==
    IF n < 16 THEN <<UpperHex[n + 1]>>
    ELSE HexDigits(n \div 16) \o <<UpperHex[(n % 16) + 1]>>

RECURSIVE ZeroPad(_, _)
ZeroPad(d, width) == IF Len(d) >= width THEN d ELSE ZeroPad(<<"0">> \o d, width)

\* f"{n:X}": no minimum width.
Format02X_NoPad(n) ==
    IF n < 0 THEN <<"-">> \o HexDigits(-n) ELSE HexDigits(n)

\* f"{n:02x}": lowercase digits.
Format02X_Lower(n) ==
    LET d == IF n < 0 THEN <<"-">> \o ZeroPad(HexDigits(-n), 1)
             ELSE ZeroPad(HexDigits(n), 2)
    IN  [i \in 1..Len(d) |-> IF d[i] = "-" THEN "-" ELSE LowerHex[HexVal(d[i]) + 1]]

\* f"{n:02X}": sign, then the digits zero-padded so that the whole field
\* has at least two characters.
Format02X(n) ==
    IF n < 0 THEN <<"-">> \o ZeroPad(HexDigits(-n), 1)
    ELSE ZeroPad(HexDigits(n), 2)

rgba_to_hex(rgba) ==
    <<"#">> \o Format02X(rgba[1]) \o Format02X(rgba[2])
            \o Format02X(rgba[3]) \o Format02X(rgba[4])

(***************************************************************************)
(* hex_to_rgba                                                             *)
(***************************************************************************)
Ok(v) == [ok |-> TRUE, val |-> v]

Raise(e) == [ok |-> FALSE, exc |-> e]

RECURSIVE DigitsValue(_, _)
\* The value of a string of hexadecimal digits, acc being the value of the
\* digits already read.
DigitsValue(d, acc) ==
    IF d = <<>> THEN acc ELSE DigitsValue(Tail(d), acc * 16 + HexVal(d[1]))

\* Whether d is a digit string int() accepts: hexadecimal digits, single
\* underscores allowed between two digits only.
ValidDigits(d) ==
    /\ d # <<>>
    /\ \A i \in 1..Len(d) :
          \/ IsHexDigit(d[i])
          \/ /\ d[i] = "_"
             /\ i > 1 /\ i < Len(d)
             /\ IsHexDigit(d[i - 1]) /\ IsHexDigit(d[i + 1])

RemoveUnderscores(d) == SelectSeq(d, LAMBDA c : c # "_")

\* int(s, 16): surrounding whitespace is stripped, one sign is allowed, then
\* an optional 0x/0X prefix, then the digits.
Int16(s) ==
    LET t    == Strip(s)
        neg  == t # <<>> /\ t[1] = "-"
        u    == IF t # <<>> /\ t[1] \in {"+", "-"} THEN Tail(t) ELSE t
        pre  == Len(u) >= 2 /\ u[1] = "0" /\ u[2] \in {"x", "X"}
        v    == IF pre THEN Tail(Tail(u)) ELSE u
        d    == IF pre /\ v # <<>> /\ v[1] = "_" THEN Tail(v) ELSE v
    IN  IF ValidDigits(d)
        THEN Ok((IF neg THEN -1 ELSE 1) * DigitsValue(RemoveUnderscores(d), 0))
        ELSE Raise("ValueError")

hex_to_rgba(hex_code) ==
    IF ~(hex_code # <<>> /\ hex_code[1] = "#") \/ Len(hex_code) # 9
    THEN Raise([type |-> "ValueError", what |-> "invalid_format"])
    ELSE LET r == Int16(Slice(hex_code, 1, 3))
             g == Int16(Slice(hex_code, 3, 5))
             b == Int16(Slice(hex_code, 5, 7))
             a == Int16(Slice(hex_code, 7, 9))
         IN  IF r.ok /\ g.ok /\ b.ok /\ a.ok
             THEN Ok(<<r.val, g.val, b.val, a.val>>)
             ELSE Raise([type |-> "ValueError", what |-> "invalid_characters"])

(***************************************************************************)
(* Python values whose type decides a comparison                           *)
(***************************************************************************)
PyTuple(items) == [type |-> "tuple", items |-> items]

PyList(items) == [type |-> "list", items |-> items]

\* x in seq: some element equals x.  A list never equals a tuple.
PyIn(x, seq) == \E i \in 1..Len(seq) : seq[i] = x

valid_sizes == <<PyTuple(<<64, 32>>), PyTuple(<<64, 64>>), PyTuple(<<128, 128>>)>>

(***************************************************************************)
(* Files and images                                                        *)
(***************************************************************************)
NoFile == [exists |-> FALSE]

\* A file that is no image: Image.open raises on it.
NotAnImage == [exists |-> TRUE, kind |-> "other"]

ImageFile(mode_, w, h, pattern) ==
    [exists |-> TRUE, kind |-> "image", mode |-> mode_, size |-> <<w, h>>,
     pattern |-> pattern, opaque |-> FALSE]

TextFile(ls) == [exists |-> TRUE, lines |-> ls]

\* The pixel of an image at (x, row_y): three channels in mode RGB, four in
\* mode RGBA.  The channel values of an input image are those of its
\* pattern; `opaque` marks an alpha channel that convert("RGBA") added.
GetPixel(image, x, row_y) ==
    LET k == image.pattern
        r == (x * k + row_y) % 256
        g == (row_y * 7 + k) % 256
        b == (x + row_y * k) % 256
        a == (x * row_y + 255 * k) % 256
    IN  IF image.mode = "RGB" THEN <<r, g, b>>
        ELSE <<r, g, b, IF image.opaque THEN 255 ELSE a>>

\* img.convert("RGBA"): an image without alpha gets alpha 255 throughout.
ConvertRGBA(image) ==
    [image EXCEPT !.mode = "RGBA", !.opaque = (image.mode = "RGB")]

(***************************************************************************)
(* What a run prints                                                       *)
(***************************************************************************)
WrongDimension(width, height) ==
    [type |-> "ValueError", what |-> "wrong_dimension",
     width |-> width, height |-> height]

InconsistentRow(row, expected, got) ==
    [type |-> "ValueError", what |-> "inconsistent_row_length",
     row |-> row, expected |-> expected, got |-> got]

Msg(msg_, detail) == [msg |-> msg_, detail |-> detail]

None == [type |-> "None"]

\* The function returns: its locals are gone.
Return ==
    /\ pc' = "idle"
    /\ img' = <<>> /\ y' = 0 /\ lines' = <<>> /\ grid_data' = <<>>
    /\ expected_width' = -1

(***************************************************************************)
(* png_to_hex_grid                                                         *)
(***************************************************************************)
\* No size check.
ImageSizeValid_Any(size) == TRUE

\* img.size not in valid_sizes, negated: img.size is a tuple.
ImageSizeValid(size) == PyIn(PyTuple(size), valid_sizes)

\* One row of the output: the codes of row row_y joined by single spaces,
\* newline-terminated.
ExportRow(image, row_y) ==
    LET width == image.size[1]
        row_hex_codes == [i \in 1..width |->
                             rgba_to_hex(GetPixel(image, i - 1, row_y))]
    IN  Join(<<" ">>, row_hex_codes) \o <<"\n">>

\* The command line selects png2txt; the input path does not exist.
ExportCheckInput ==
    /\ pc = "idle"
    /\ mode' = "png2txt"
    /\ IF ~png_in.exists
       THEN /\ stdout' = <<Msg("input_png_not_found", None)>>
            /\ Return
       ELSE /\ stdout' = <<>>
            /\ pc' = "exp_load"
            /\ UNCHANGED <<img, y, lines, grid_data, expected_width>>
    /\ UNCHANGED <<png_in, txt, png_out, txt_src, codecVars>>

\* Image.open, convert, the size check, load; an exception is printed by
\* the handler of the function and the function returns.
ExportLoad ==
    /\ pc = "exp_load"
    /\ IF png_in.kind # "image"
       THEN /\ stdout' = Append(stdout,
                    Msg("png2txt_error", [type |-> "UnidentifiedImageError"]))
            /\ Return
       ELSE LET image == ConvertRGBA(png_in)
            IN  IF ~ImageSizeValid(image.size)
                THEN /\ stdout' = Append(stdout,
                             Msg("png2txt_error",
                                 WrongDimension(image.size[1], image.size[2])))
                     /\ Return
                ELSE /\ stdout' = Append(stdout,
                             Msg("image_loaded", PyTuple(image.size)))
                     /\ img' = image
                     /\ pc' = "exp_open"
                     /\ UNCHANGED <<y, lines, grid_data, expected_width>>
    /\ UNCHANGED <<png_in, txt, png_out, mode, txt_src, codecVars>>

\* open(output_txt_path, "w"): the file is created, or truncated.
ExportOpenOutput ==
    /\ pc = "exp_open"
    /\ txt' = TextFile(<<>>)
    /\ txt_src' = "partial"
    /\ y' = 0
    /\ pc' = "exp_rows"
    /\ UNCHANGED <<png_in, png_out, stdout, mode, img, lines, grid_data,
                   expected_width, codecVars>>

\* One iteration of the loop over y: a row is written.
ExportWriteRow ==
    /\ pc = "exp_rows"
    /\ y < img.size[2]
    /\ txt' = TextFile(Append(txt.lines, ExportRow(img, y)))
    /\ y' = y + 1
    /\ UNCHANGED <<pc, png_in, png_out, stdout, mode, txt_src, img, lines,
                   grid_data, expected_width, codecVars>>

\* The loop is over, the file is closed, success is printed.
ExportFinish ==
    /\ pc = "exp_rows"
    /\ y = img.size[2]
    /\ stdout' = Append(stdout, Msg("hex_grid_written", None))
    /\ txt_src' = "export"
    /\ Return
    /\ UNCHANGED <<png_in, txt, png_out, mode, codecVars>>

(***************************************************************************)
(* hex_grid_to_png                                                         *)
(***************************************************************************)
\* [width, height] not in valid_sizes, negated: the operand is a list.
GridSizeValid(width, height) == PyIn(PyList(<<width, height>>), valid_sizes)

\* The index of enumerate, unshifted.
ReportedRow_FromZero(line_y) == line_y

\* The row number the row-length error names, y being the index enumerate
\* gives the line.
ReportedRow(line_y) == line_y + 1

TransparentBlack == <<0, 0, 0, 0>>

\* The body of the pixel loop at (x, y): the value stored and what is
\* printed, if anything.
PopulateCell(grid, x, row_y) ==
    IF x + 1 > Len(grid[row_y + 1])
    THEN [rgba |-> TransparentBlack,
          out |-> <<Msg("index_out_of_bounds", PyTuple(<<x, row_y>>))>>]
    ELSE LET res == hex_to_rgba(grid[row_y + 1][x + 1])
         IN  IF res.ok
             THEN [rgba |-> res.val, out |-> <<>>]
             ELSE [rgba |-> TransparentBlack,
                   out |-> <<Msg("hex_parse_error",
                                 [row |-> row_y + 1, column |-> x + 1,
                                  exc |-> res.exc])>>]

RECURSIVE ConcatRange(_, _, _)
ConcatRange(seqs, lo, hi) ==
    IF lo > hi THEN <<>>
    ELSE IF lo = hi THEN seqs[lo]
    ELSE LET mid == (lo + hi) \div 2
         IN  ConcatRange(seqs, lo, mid) \o ConcatRange(seqs, mid + 1, hi)

\* The sequences of seqs one after the other.
Concat(seqs) == ConcatRange(seqs, 1, Len(seqs))

\* The pixel loops over a new width x height image: the pixel buffer, and
\* what was printed, rows top to bottom and columns left to right.
Populate(grid, width, height) ==
    [px  |-> [p \in (0..(width - 1)) \X (0..(height - 1)) |->
                 PopulateCell(grid, p[1], p[2]).rgba],
     out |-> Concat([k \in 1..(width * height) |->
                 PopulateCell(grid, (k - 1) % width, (k - 1) \div width).out])]

\* The command line selects txt2png; the input path does not exist.
ImportCheckInput ==
    /\ pc = "idle"
    /\ mode' = "txt2png"
    /\ IF ~txt.exists
       THEN /\ stdout' = <<Msg("input_txt_not_found", None)>>
            /\ Return
       ELSE /\ stdout' = <<>>
            /\ pc' = "imp_read"
            /\ UNCHANGED <<img, y, lines, grid_data, expected_width>>
    /\ UNCHANGED <<png_in, txt, png_out, txt_src, codecVars>>

\* f.readlines() and the test for an empty list.
ImportRead ==
    /\ pc = "imp_read"
    /\ IF txt.lines = <<>>
       THEN /\ stdout' = Append(stdout, Msg("input_txt_empty", None))
            /\ Return
       ELSE /\ lines' = txt.lines
            /\ grid_data' = <<>>
            /\ expected_width' = -1
            /\ y' = 0
            /\ pc' = "imp_parse"
            /\ UNCHANGED <<stdout, img>>
    /\ UNCHANGED <<png_in, txt, png_out, mode, txt_src, codecVars>>

\* One iteration of the loop over enumerate(lines).
ImportParseLine ==
    /\ pc = "imp_parse"
    /\ y < Len(lines)
    /\ LET line == Strip(lines[y + 1])
           row_hex_codes == Split(line)
       IN  IF line = <<>>
           THEN /\ y' = y + 1
                /\ UNCHANGED <<pc, stdout, img, lines, grid_data, expected_width>>
           ELSE IF expected_width # -1 /\ Len(row_hex_codes) # expected_width
           THEN /\ stdout' = Append(stdout,
                        Msg("txt2png_value_error",
                            InconsistentRow(ReportedRow(y), expected_width,
                                            Len(row_hex_codes))))
                /\ Return
           ELSE /\ expected_width' = IF expected_width = -1
                                     THEN Len(row_hex_codes)
                                     ELSE expected_width
                /\ grid_data' = Append(grid_data, row_hex_codes)
                /\ y' = y + 1
                /\ UNCHANGED <<pc, stdout, img, lines>>
    /\ UNCHANGED <<png_in, txt, png_out, mode, txt_src, codecVars>>

\* After the loop: the dimension check, the new image, the pixel loops and
\* img.save.
ImportBuild ==
    /\ pc = "imp_parse"
    /\ y = Len(lines)
    /\ LET height == Len(grid_data)
           width == expected_width
       IN  IF ~GridSizeValid(width, height)
           THEN /\ stdout' = Append(stdout,
                        Msg("txt2png_value_error", WrongDimension(width, height)))
                /\ UNCHANGED png_out
           ELSE LET filled == Populate(grid_data, width, height)
                IN  /\ png_out' = [exists |-> TRUE, kind |-> "image",
                                   mode |-> "RGBA", size |-> <<width, height>>,
                                   px |-> filled.px]
                    /\ stdout' = (Append(stdout,
                                     Msg("text_grid_loaded",
                                         PyTuple(<<width, height>>)))
                                  \o filled.out)
                                  \o <<Msg("png_created", None)>>
    /\ Return
    /\ UNCHANGED <<png_in, txt, mode, txt_src, codecVars>>

(***************************************************************************)
(* The inputs of the conversions                                           *)
(***************************************************************************)
MaxLines == 3

ImageInputs ==
    {ImageFile("RGBA", 64, 32, 1), ImageFile("RGB", 64, 32, 3),
     ImageFile("RGBA", 64, 64, 5), ImageFile("RGBA", 128, 128, 2),
     ImageFile("RGBA", 10, 10, 1), ImageFile("RGB", 32, 64, 1),
     ImageFile("RGBA", 64, 63, 2), ImageFile("RGBA", 128, 64, 1),
     NotAnImage, NoFile}

Red == <<"#","F","F","0","0","0","0","F","F">>

Teal == <<"#","0","0","8","0","8","0","c","0">>

Malformed == <<"#","Z","Z","Z","Z","Z","Z","Z","Z">>

\* Lines of a small text file: blank, whitespace only, one to three tokens
\* with single or irregular spacing.
LineChoices ==
    {<<"\n">>,
     <<" ", "\t", "\n">>,
     Red \o <<"\n">>,
     Red \o <<" ">> \o Teal \o <<"\n">>,
     <<" ">> \o Teal \o <<"\t", " ">> \o Malformed \o <<" ", "\n">>,
     Red \o <<" ">> \o Red \o <<" ">> \o Red \o <<"\n">>}

\* A last line the file does not terminate with a newline.
Unterminated == {Red \o <<" ">> \o Teal, <<" ">>}

SmallTexts ==
    UNION {[1..n -> LineChoices] : n \in 0..MaxLines}
    \cup {Append(f, u) : f \in UNION {[1..n -> LineChoices] : n \in 0..(MaxLines - 1)},
                         u \in Unterminated}

\* A width x height grid as a png2txt run writes it, with the token at
\* column bad_x of row bad_y (from 0) replaced by a malformed one.
GridLines(width, height, bad_x, bad_y) ==
    [r \in 1..height |->
        Join(<<" ">>,
             [c \in 1..width |->
                 IF c - 1 = bad_x /\ r - 1 = bad_y THEN Malformed
                 ELSE rgba_to_hex(GetPixel(ImageFile("RGBA", width, height, 3),
                                           c - 1, r - 1))])
        \o <<"\n">>]

\* Row 1 with 64 tokens, row 2 with 63.
Ragged ==
    <<Join(<<" ">>, [c \in 1..64 |-> Red]) \o <<"\n">>,
      Join(<<" ">>, [c \in 1..63 |-> Red]) \o <<"\n">>>>

BigTexts ==
    LET grid == GridLines(64, 32, 2, 1)
    IN  {grid,
         <<<<" ", "\n">>>> \o SubSeq(grid, 1, 5) \o <<<<"\n">>>>
             \o SubSeq(grid, 6, 32) \o <<<<"\n">>>>,
         Ragged,
         <<<<"\n">>>> \o Ragged,
         GridLines(64, 64, 64, 64)}

TextInputs == {TextFile(ls) : ls \in SmallTexts \cup BigTexts}

Init ==
    /\ pc = "idle"
    /\ \/ png_in \in ImageInputs /\ txt = NoFile
       \/ png_in \in ImageInputs /\ txt = TextFile(<<Red \o <<"\n">>>>)
       \/ png_in = NoFile /\ txt \in TextInputs
    /\ png_out = NoFile
    /\ stdout = <<>>
    /\ mode = "none"
    /\ txt_src = IF txt.exists THEN "user" ELSE "none"
    /\ img = <<>> /\ y = 0 /\ lines = <<>> /\ grid_data = <<>>
    /\ expected_width = -1
    /\ cin = [kind |-> "none"] /\ cval = [ok |-> FALSE] /\ ccalls = <<>>

Next ==
    \/ ExportCheckInput
    \/ ExportLoad
    \/ ExportOpenOutput
    \/ ExportWriteRow
    \/ ExportFinish
    \/ ImportCheckInput
    \/ ImportRead
    \/ ImportParseLine
    \/ ImportBuild

Spec == Init /\ [][Next]_vars

(***************************************************************************)
(* The codec called directly: a first argument, then the two functions     *)
(* applied in turn, each to the value the previous one returned.           *)
(***************************************************************************)
MaxCalls == 2

\* Pixels with every channel in 0..255: each channel takes every byte value
\* while the other three are at an end of the range.
PixelInputs ==
    {[i \in 1..4 |-> IF i = k THEN v ELSE base[i]] :
        k \in 1..4, v \in 0..255, base \in [1..4 -> {0, 255}]}

\* Two-character fields: hexadecimal in both cases, and the strings int()
\* could stumble on (sign, blank, prefix, underscore, a letter past F).
Pairs ==
    {<<"0","0">>, <<"F","F">>, <<"A","7">>, <<"c","9">>, <<"Z","Z">>,
     <<"+","F">>, <<"-","1">>, <<" ","1">>, <<"0","x">>, <<"1","_">>}

NineChars == {<<h>> \o p1 \o p2 \o p3 \o p4 :
                 h \in {"#", "0"}, p1 \in Pairs, p2 \in Pairs,
                 p3 \in Pairs, p4 \in Pairs}

\* Strings of other lengths: a prefix of a well-formed code, or one with a
\* digit too many.
OtherLengths ==
    LET code == <<"#","1","2","3","4","5","6","7","8">>
    IN  {SubSeq(code, 1, n) : n \in 0..8} \cup {code \o <<"9">>}

StringInputs == NineChars \cup OtherLengths

PixelArgs == {[kind |-> "pixel", val |-> p] : p \in PixelInputs}

StringArgs == {[kind |-> "str", val |-> s] : s \in StringInputs}

\* What the value handed to the next codec call is.
ArgKind ==
    IF ccalls = <<>> THEN cin.kind
    ELSE IF ccalls[Len(ccalls)] = "rgba_to_hex" THEN "str" ELSE "pixel"

CallRgbaToHex ==
    /\ Len(ccalls) < MaxCalls
    /\ cval.ok
    /\ ArgKind = "pixel"
    /\ cval' = Ok(rgba_to_hex(cval.val))
    /\ ccalls' = Append(ccalls, "rgba_to_hex")
    /\ UNCHANGED <<cin, convVars>>

CallHexToRgba ==
    /\ Len(ccalls) < MaxCalls
    /\ cval.ok
    /\ ArgKind = "str"
    /\ cval' = hex_to_rgba(cval.val)
    /\ ccalls' = Append(ccalls, "hex_to_rgba")
    /\ UNCHANGED <<cin, convVars>>

ConvIdle ==
    /\ pc = "idle"
    /\ png_in = NoFile /\ txt = NoFile /\ png_out = NoFile
    /\ stdout = <<>> /\ mode = "none" /\ txt_src = "none"
    /\ img = <<>> /\ y = 0 /\ lines = <<>> /\ grid_data = <<>>
    /\ expected_width = -1

InitCodec ==
    /\ (cin \in PixelArgs \/ cin \in StringArgs)
    /\ cval = Ok(cin.val)
    /\ ccalls = <<>>
    /\ ConvIdle

NextCodec == CallRgbaToHex \/ CallHexToRgba

SpecCodec == InitCodec /\ [][NextCodec]_vars

(***************************************************************************)
(* Properties.  The vocabulary they are stated in.                         *)
(***************************************************************************)
\* The three width x height pairs of a skin.
ValidDims == {<<64, 32>>, <<64, 64>>, <<128, 128>>}

IsUpperHexDigit(c) == \E i \in 1..16 : UpperHex[i] = c

\* '#' followed by exactly eight hexadecimal digits.
IsColorCode(s) ==
    Len(s) = 9 /\ s[1] = "#" /\ \A i \in 2..9 : IsHexDigit(s[i])

IsUpperColorCode(s) ==
    Len(s) = 9 /\ s[1] = "#" /\ \A i \in 2..9 : IsUpperHexDigit(s[i])

IsPixel(v) == \A i \in 1..4 : v[i] \in 0..255

\* The tokens of line i of a text.
TokensOf(ls, i) == Split(Strip(ls[i]))

\* The numbers (from 1, counting every line) of the non-blank lines.
NonBlank(ls) == {i \in 1..Len(ls) : Strip(ls[i]) # <<>>}

Least(S) == CHOOSE m \in S : \A n \in S : m <= n

\* The non-blank lines after the first one whose token count is not that of
\* the first one.
Offending(ls) ==
    {i \in NonBlank(ls) :
        Len(TokensOf(ls, i)) # Len(TokensOf(ls, Least(NonBlank(ls))))}

\* A txt2png run has ended on an input that exists.
ImportEnded == pc = "idle" /\ mode = "txt2png" /\ txt.exists

LastPrinted == stdout[Len(stdout)]

(***************************************************************************)
(* C2: for every pixel with each channel in 0..255,                        *)
(* hex_to_rgba(rgba_to_hex(pixel)) succeeds and returns that pixel.        *)
(***************************************************************************)
C2_DecodeOfEncode ==
    (cin.kind = "pixel" /\ ccalls = <<"rgba_to_hex", "hex_to_rgba">>)
        => (cval.ok /\ cval.val = cin.val)

C2_Witness ==
    /\ cin.kind = "pixel" /\ cin.val = <<255, 171, 0, 255>>
    /\ ccalls = <<"rgba_to_hex", "hex_to_rgba">>
    /\ cval = Ok(<<255, 171, 0, 255>>)

(***************************************************************************)
(* C3: for every '#' followed by eight uppercase hexadecimal digits,       *)
(* hex_to_rgba succeeds and rgba_to_hex of its result is the code again.   *)
(***************************************************************************)
C3_EncodeOfDecode ==
    (cin.kind = "str" /\ IsUpperColorCode(cin.val))
        => /\ ccalls = <<"hex_to_rgba">> => cval.ok
           /\ ccalls = <<"hex_to_rgba", "rgba_to_hex">>
                 => (cval.ok /\ cval.val = cin.val)

C3_Witness ==
    /\ cin.kind = "str"
    /\ cin.val = <<"#","F","F","A","7","0","0","F","F">>
    /\ ccalls = <<"hex_to_rgba", "rgba_to_hex">>
    /\ cval.val = cin.val

(***************************************************************************)
(* C4: hex_to_rgba succeeds on '#' followed by exactly eight hexadecimal   *)
(* digits (either case) and fails with a ValueError on every other string. *)
(* The code accepts a sign or a blank in a two-character field.            *)
(***************************************************************************)
C4_OnlyColorCodesDecode ==
    (cin.kind = "str" /\ ccalls = <<"hex_to_rgba">>)
        => /\ cval.ok <=> IsColorCode(cin.val)
           /\ ~cval.ok => cval.exc.type = "ValueError"

(***************************************************************************)
(* C10: for every token (a string without whitespace) either hex_to_rgba   *)
(* fails or each channel it returns is an integer in 0..255.  The code     *)
(* returns a negative channel for a field such as "-1".                    *)
(***************************************************************************)
C10_ChannelsInRange ==
    (/\ cin.kind = "str" /\ ccalls = <<"hex_to_rgba">>
     /\ \A i \in 1..Len(cin.val) : cin.val[i] \notin Whitespace
     /\ cval.ok)
        => IsPixel(cval.val)

(***************************************************************************)
(* C1: png2txt of an image of valid dimensions followed by txt2png of the  *)
(* file it wrote succeeds and yields an image of the same size with the    *)
(* same RGBA pixel everywhere (alpha 255 when the source had no alpha).    *)
(* The code's txt2png rejects every grid at its dimension check.           *)
(***************************************************************************)
C1_ExportThenImport ==
    (ImportEnded /\ txt_src = "export")
        => /\ png_out.exists
           /\ LastPrinted = Msg("png_created", None)
           /\ png_out.size = png_in.size
           /\ \A p \in DOMAIN png_out.px :
                 png_out.px[p] = GetPixel(ConvertRGBA(png_in), p[1], p[2])

(***************************************************************************)
(* C5: txt2png of a rectangular grid of valid dimensions holding a         *)
(* malformed token prints a warning, writes the image, stores (0,0,0,0) at *)
(* the malformed token's place and the decoded value everywhere else.      *)
(* The code's txt2png rejects the grid at its dimension check (see C1).    *)
(***************************************************************************)
C5_MalformedTokenTolerated ==
    (/\ ImportEnded /\ txt_src = "user"
     /\ NonBlank(txt.lines) = 1..Len(txt.lines)
     /\ Offending(txt.lines) = {}
     /\ Len(txt.lines) > 0
     /\ <<Len(TokensOf(txt.lines, 1)), Len(txt.lines)>> \in ValidDims
     /\ \E i \in 1..Len(txt.lines) : \E j \in 1..Len(TokensOf(txt.lines, i)) :
           ~IsColorCode(TokensOf(txt.lines, i)[j]))
        => /\ png_out.exists
           /\ LastPrinted = Msg("png_created", None)
           /\ \E k \in 1..Len(stdout) : stdout[k].msg = "hex_parse_error"
           /\ \A p \in DOMAIN png_out.px :
                 LET token == TokensOf(txt.lines, p[2] + 1)[p[1] + 1]
                 IN  png_out.px[p] = IF IsColorCode(token)
                                     THEN hex_to_rgba(token).val
                                     ELSE TransparentBlack

(***************************************************************************)
(* C6: a validation failure stops before any output is written.  The text  *)
(* file changes only in a png2txt run on an image of valid dimensions, the *)
(* output image only in a txt2png run on a grid with consistent rows and   *)
(* valid dimensions; a run that fails validation prints the error and      *)
(* leaves no output.                                                       *)
(***************************************************************************)
C6_OutputOnlyAfterValidation ==
    /\ [][/\ txt' # txt =>
                /\ mode = "png2txt" /\ png_in.exists /\ png_in.kind = "image"
                /\ png_in.size \in ValidDims
          /\ png_out' # png_out =>
                /\ mode = "txt2png" /\ txt.exists
                /\ Offending(txt.lines) = {}
                /\ NonBlank(txt.lines) # {}
                /\ <<Len(TokensOf(txt.lines, Least(NonBlank(txt.lines)))),
                     Cardinality(NonBlank(txt.lines))>> \in ValidDims]_vars
    /\ [](/\ (/\ pc = "idle" /\ mode = "png2txt" /\ png_in.exists
              /\ png_in.kind = "image" /\ png_in.size \notin ValidDims)
                 => /\ stdout = <<Msg("png2txt_error",
                                      WrongDimension(png_in.size[1],
                                                     png_in.size[2]))>>
                    /\ txt_src \in {"none", "user"}
          /\ (/\ ImportEnded /\ NonBlank(txt.lines) # {}
              /\ \/ Offending(txt.lines) # {}
                 \/ <<Len(TokensOf(txt.lines, Least(NonBlank(txt.lines)))),
                      Cardinality(NonBlank(txt.lines))>> \notin ValidDims)
                 => /\ LastPrinted.msg = "txt2png_value_error"
                    /\ ~png_out.exists)

C6_Witness ==
    /\ pc = "idle" /\ mode = "png2txt"
    /\ png_in.exists /\ png_in.kind = "image" /\ png_in.size = <<10, 10>>
    /\ stdout = <<Msg("png2txt_error", WrongDimension(10, 10))>>
    /\ ~txt.exists

(***************************************************************************)
(* C7: txt2png of a text in which a non-blank line after the first         *)
(* non-blank line has another token count fails with the row-length error  *)
(* naming the first such line (its number in the file, from 1), the token  *)
(* count of the first non-blank line and the count found; no image is      *)
(* written.                                                                *)
(***************************************************************************)
C7_InconsistentRowNamed ==
    (ImportEnded /\ Offending(txt.lines) # {})
        => LET first == Least(NonBlank(txt.lines))
               bad   == Least(Offending(txt.lines))
           IN  /\ stdout = <<Msg("txt2png_value_error",
                                 InconsistentRow(bad,
                                                 Len(TokensOf(txt.lines, first)),
                                                 Len(TokensOf(txt.lines, bad))))>>
               /\ ~png_out.exists

C7_Witness ==
    /\ ImportEnded
    /\ txt.lines = Ragged
    /\ stdout = <<Msg("txt2png_value_error", InconsistentRow(2, 64, 63))>>

(***************************************************************************)
(* C8: blank lines are ignored by txt2png: they change neither the width   *)
(* and height it computes nor the row number of the row-length error.      *)
(* Without blank lines the error names the offending row by its place      *)
(* among the rows, so with blank lines added it must name the same place:  *)
(* its rank among the non-blank lines.  The code numbers the row by its    *)
(* line in the file, blank lines counted.                                  *)
(***************************************************************************)
C8_BlankLinesIgnored ==
    (ImportEnded /\ NonBlank(txt.lines) # {}
     /\ LastPrinted.msg = "txt2png_value_error")
        => LET ls == txt.lines
               e  == LastPrinted.detail
           IN  /\ e.what = "wrong_dimension"
                     => /\ e.width = Len(TokensOf(ls, Least(NonBlank(ls))))
                        /\ e.height = Cardinality(NonBlank(ls))
               /\ e.what = "inconsistent_row_length"
                     => e.row = Cardinality({i \in NonBlank(ls) :
                                                i <= Least(Offending(ls))})

(***************************************************************************)
(* C9: txt2png of a text with no usable line (no line at all, or blank     *)
(* lines only) prints the empty-input error and writes nothing.  The code  *)
(* prints it for a file without lines only; blank lines take it to the     *)
(* dimension error, with width -1 and height 0.                            *)
(***************************************************************************)
C9_NoUsableLinesIsEmptyInput ==
    (ImportEnded /\ NonBlank(txt.lines) = {})
        => /\ stdout = <<Msg("input_txt_empty", None)>>
           /\ ~png_out.exists

====
